---- MODULE Spec2Model ----
(***************************************************************************)
(* State-machine model of the MoviePlayer React component                  *)
(* (src/src/components/MoviePlayer.tsx).                                   *)
(*                                                                         *)
(* Every React event handler is one atomic action: the state updates it    *)
(* queues, the re-render and the effects that follow are part of the same  *)
(* step, so the closures used by the next handler are fresh.  The native   *)
(* <video> element, the blob-URL registry of the page, the timers of the   *)
(* page and the wall clock are the environment; their state is held in the *)
(* variables whose names start with "v", in objectURLs, timers and now.    *)
(*                                                                         *)
(* Units: a volume or a playback rate r of the code is the integer 100*r;  *)
(* a media time of s seconds is the integer s * TrackWidth, so that the    *)
(* fraction clickX / width of the progress bar times a whole number of     *)
(* seconds is computed exactly; wall-clock time advances by whole seconds. *)
(***************************************************************************)
EXTENDS Integers, Sequences, FiniteSets, TLC

\* ---------------------------------------------------------------- bounds
\* Width of the progress bar in pixels (rect.width); also the time scale.
TrackWidth == 2
\* Blob URLs the page creates in one run (files selected or dropped).
MaxUrls == 2
\* Native play / pause events queued and not yet dispatched.
MaxEvents == 2
\* Timers pending at once (only a faulty cancel discipline can exceed one).
MaxTimers == 2
\* Largest native error code the environment raises (1..4 are the standard).
MaxErrorCode == 5

\* Media time playback advances between two timeupdate events, in seconds.
PlayStep == 2

\* ------------------------------------------------------ program constants
\* setTimeout(..., 3000): the auto-hide delay, in seconds.
AutoHideDelay == 3
\* Skip distance of skipBackward / skipForward, in seconds.
SkipSeconds == 10

Min(a, b) == IF a <= b THEN a ELSE b
Max(a, b) == IF a >= b THEN a ELSE b

\* Media time of s seconds in model units.
Secs(s) == s * TrackWidth

\* ------------------------------------------------------------ input files
\* A File of the page: its name, split into the part before its last dot
\* and the extension, its MIME type as the browser reports it and the
\* duration in seconds of the media it holds.
MovieMp4 ==
  [name |-> "movie.mp4", stem |-> "movie", ext |-> ".mp4", type |-> "video/mp4", secs |-> 12]
ClipMkv ==
  [name |-> "clip.mkv", stem |-> "clip", ext |-> ".mkv", type |-> "video/x-matroska", secs |-> 4]
SubsVtt ==
  [name |-> "subs.vtt", stem |-> "subs", ext |-> ".vtt", type |-> "text/vtt", secs |-> 0]
Files == {MovieMp4, ClipMkv, SubsVtt}
\* A film of ten hours, for the time display.
FilmMp4 ==
  [name |-> "film.mp4", stem |-> "film", ext |-> ".mp4", type |-> "video/mp4", secs |-> 36000]

\* file.type.startsWith('video/')
IsVideoType(file) == file.type \in {"video/mp4", "video/x-matroska"}
\* file.name.endsWith('.srt') || ... '.vtt' || ... '.ass' || ... '.ssa'
IsSubtitleName(file) == file.ext \in {".srt", ".vtt", ".ass", ".ssa"}

\* The payloads of a drop event: one or two of the given files, in order.
DropPayloads(files) ==
  {<<f>> : f \in files} \cup {p \in {<<f, g>> : f \in files, g \in files} : p[1] # p[2]}

\* files.find(pred): the index of the first file satisfying pred, 0 if none.
FindFirst(files, Pred(_)) ==
  LET hits == {i \in 1..Len(files) : Pred(files[i])}
  IN  IF hits = {} THEN 0 ELSE CHOOSE i \in hits : \A j \in hits : i <= j

\* Values of the volume slider (min 0, max 1, step 0.05), times 100.
Volumes == {0, 50, 100}
\* The playback-rate buttons the user presses, times 100: three of the six
\* buttons [0.5, 0.75, 1, 1.25, 1.5, 2].
Rates == {75, 100, 200}
\* KeyboardEvent.code values the environment sends.
ShortcutKeys == {"Space", "KeyM", "ArrowLeft", "ArrowRight", "KeyF", "KeyK", "KeyJ", "KeyL"}
Keys == ShortcutKeys \cup {"KeyQ"}
\* The elements of the page a keydown can have as its target: "body" is the
\* document body, a button or the video; "range" is the volume slider, the
\* one <input> of the page that takes the focus (the file inputs are not
\* displayed, and the page has no text field).
KeyTargets == {"body", "range"}
\* event.target instanceof HTMLInputElement
IsHTMLInputElement(target) == target \in {"range", "text"}
\* The target is an element text is typed into.
IsTextInput(target) == target = "text"

NoError == "none"
\* handleError with the break of case 3 lost: code 3 falls through to case 4.
ErrorMessageBreakLost(code) ==
  CASE code = 1 -> "Video loading was aborted"
    [] code = 2 -> "Network error occurred while loading video"
    [] code = 3 -> "Video format not supported by your browser"
    [] code = 4 -> "Video format not supported by your browser"
    [] OTHER -> "Unknown video error occurred"
\* handleError: the message for a native error code.
ErrorMessage(code) ==
  CASE code = 1 -> "Video loading was aborted"
    [] code = 2 -> "Network error occurred while loading video"
    [] code = 3 -> "Video format not supported or corrupted"
    [] code = 4 -> "Video format not supported by your browser"
    [] OTHER -> "Unknown video error occurred"

\* ------------------------------------------------------------ formatTime
\* A text is the sequence of its characters.
DigitChar(d) == <<"0", "1", "2", "3", "4", "5", "6", "7", "8", "9">>[d + 1]

\* Number.prototype.toString() of a natural number.
RECURSIVE NumberToString(_)
NumberToString(n) ==
  IF n < 10 THEN <<DigitChar(n)>> ELSE NumberToString(n \div 10) \o <<DigitChar(n % 10)>>

\* String.prototype.padStart(targetLength, '0')
RECURSIVE PadStart(_, _)
PadStart(str, targetLength) ==
  IF Len(str) >= targetLength THEN str ELSE PadStart(<<"0">> \o str, targetLength)

\* formatTime without the padding of the seconds.
formatTimeSecondsUnpadded(time) ==
  LET hours == time \div Secs(3600)
      minutes == (time % Secs(3600)) \div Secs(60)
      seconds == (time % Secs(60)) \div Secs(1)
  IN  IF hours > 0
        THEN NumberToString(hours) \o <<":">> \o PadStart(NumberToString(minutes), 2)
               \o <<":">> \o NumberToString(seconds)
        ELSE NumberToString(minutes) \o <<":">> \o NumberToString(seconds)

\* formatTime, of a media time in model units.
formatTime(time) ==
  LET hours == time \div Secs(3600)
      minutes == (time % Secs(3600)) \div Secs(60)
      seconds == (time % Secs(60)) \div Secs(1)
  IN  IF hours > 0
        THEN NumberToString(hours) \o <<":">> \o PadStart(NumberToString(minutes), 2)
               \o <<":">> \o PadStart(NumberToString(seconds), 2)
        ELSE NumberToString(minutes) \o <<":">> \o PadStart(NumberToString(seconds), 2)

VARIABLES
  \* ---- React state of the component
  videoFile,              \* blob URL of the active video (0 = null)
  fileName, fileFormat,
  videoError,             \* NoError (null) or a message
  isVideoLoaded, isPlaying, isBuffering,
  currentTime, duration,
  volume, isMuted, playbackRate,
  showControls, showSettingsMenu,
  subtitleTracks, selectedSubtitleTrack,
  controlsTimeoutRef,     \* handle of the last timer set (0 = undefined)
  \* ---- the page
  objectURLs,             \* unrevoked blob URLs: URL i is objectURLs[i]
  now,                    \* Date.now()
  timers,                 \* pending timers: handle -> seconds left
  \* ---- the native <video> element (mounted iff videoFile # 0)
  vPhase,                 \* "none", "new", "loading", "meta", "failed"
  vPaused, vErr, vTime, vVolume, vMuted, vRate,
  vEvents,                \* play / pause events queued for dispatch
  \* ---- the document's fullscreen state
  isFullscreen,           \* React state
  fullscreenElement,      \* document.fullscreenElement is set
  fsChange,               \* a fullscreenchange notification is pending
  \* ---- the life of the component
  mounted,                \* the component is on the page
  keyListener,            \* its keydown listener is subscribed to the document
  fullscreenListener,     \* its fullscreenchange listener is subscribed
  \* ---- history
  op,                     \* the handler that ran last
  sinceInput,             \* seconds since the last qualifying input (capped)
  quiet                   \* seconds isPlaying has held without such input (capped)

\* The handlers op tells apart; any other handler is recorded as "other".
TrackedOps == {"handleFileSelect", "handleDrop:video", "handleDrop:both", "handleVolumeChange", "skipBackward",
               "skipForward", "handleProgressClick", "handleError", "timeout",
               "handleMouseMove", "handleKeyPress", "tryAgain", "chooseDifferentFile",
               "handleFullscreenChange", "teardown"}
Op(name) == IF name \in TrackedOps THEN name ELSE "other"

fileVars == <<videoFile, fileName, fileFormat>>
playVars == <<videoError, isVideoLoaded, isPlaying, isBuffering, currentTime, duration>>
audioVars == <<volume, isMuted, playbackRate>>
subVars == <<subtitleTracks, selectedSubtitleTrack>>
ctlVars == <<showControls, controlsTimeoutRef, timers>>
pageVars == <<objectURLs, now>>
nativeVars == <<vPhase, vPaused, vErr, vTime, vVolume, vMuted, vRate, vEvents>>
fsVars == <<isFullscreen, fullscreenElement, fsChange>>
histVars == <<sinceInput, quiet>>
lifeVars == <<mounted, keyListener, fullscreenListener>>
vars == <<fileVars, playVars, audioVars, subVars, ctlVars, pageVars, nativeVars,
          fsVars, histVars, lifeVars, showSettingsMenu, op>>

\* ------------------------------------------------------------------- Init
Init ==
  /\ videoFile = 0 /\ fileName = "" /\ fileFormat = ""
  /\ videoError = NoError
  /\ isVideoLoaded = FALSE /\ isPlaying = FALSE /\ isBuffering = FALSE
  /\ currentTime = 0 /\ duration = 0
  /\ volume = 100 /\ isMuted = FALSE /\ playbackRate = 100
  /\ showControls = TRUE /\ showSettingsMenu = FALSE
  /\ subtitleTracks = <<>> /\ selectedSubtitleTrack = "off"
  /\ controlsTimeoutRef = 0
  /\ objectURLs = <<>> /\ now = 0 /\ timers = <<>>
  /\ vPhase = "none" /\ vPaused = TRUE /\ vErr = 0 /\ vTime = 0
  /\ vVolume = 100 /\ vMuted = FALSE /\ vRate = 100 /\ vEvents = <<>>
  /\ isFullscreen = FALSE /\ fullscreenElement = FALSE /\ fsChange = FALSE
  /\ mounted = TRUE /\ keyListener = TRUE /\ fullscreenListener = TRUE
  /\ op = "init" /\ sinceInput = 0 /\ quiet = 0

\* videoRef.current is set exactly while the <video> element is rendered.
HasVideo == mounted /\ videoFile # 0
\* Duration of the media the mounted element plays, in model units.
vDuration == IF HasVideo THEN Secs(objectURLs[videoFile].file.secs) ELSE 0

\* The time display of the controls: {formatTime(currentTime)} / {formatTime(duration)}.
TimeDisplay == <<formatTime(currentTime), formatTime(duration)>>

\* A freshly mounted <video src=...>: paused at 0, default volume and rate,
\* resource selection about to start.
MountVideo ==
  /\ vPhase' = "new" /\ vPaused' = TRUE /\ vErr' = 0 /\ vTime' = 0
  /\ vVolume' = 100 /\ vMuted' = FALSE /\ vRate' = 100 /\ vEvents' = <<>>

\* The element is removed from the page: no event of it is dispatched again.
UnmountVideo ==
  /\ vPhase' = "none" /\ vPaused' = TRUE /\ vErr' = 0 /\ vTime' = 0
  /\ vVolume' = 100 /\ vMuted' = FALSE /\ vRate' = 100 /\ vEvents' = <<>>

\* URL.createObjectURL(file): the entry of the new URL, with the use the
\* component makes of it.
Blob(file, use) == [file |-> file, use |-> use]

\* file.type || 'Unknown'
FormatOf(file) == IF file.type = "" THEN "Unknown" ELSE file.type

\* `subtitle-${Date.now()}`
TrackId(t) ==
  <<"subtitle-0", "subtitle-1", "subtitle-2", "subtitle-3", "subtitle-4", "subtitle-5",
    "subtitle-6", "subtitle-7">>[t + 1]

\* The subtitle track built from a file whose blob URL is url; the label is
\* file.name.replace(/\.[^/.]+$/, "").
NewTrack(file, url) == [id |-> TrackId(now), label |-> file.stem, language |-> "Unknown", src |-> url]

\* --------------------------------------------------------- file intake
\* handleFileSelect without its setSelectedSubtitleTrack('off').
handleFileSelectKeepsSelection(file) ==
  /\ mounted /\ ~HasVideo
  /\ Len(objectURLs) < MaxUrls
  /\ videoError' = NoError
  /\ isVideoLoaded' = FALSE
  /\ isPlaying' = FALSE
  /\ currentTime' = 0
  /\ duration' = 0
  /\ objectURLs' = Append(objectURLs, Blob(file, "video"))
  /\ videoFile' = Len(objectURLs) + 1
  /\ fileName' = file.name
  /\ fileFormat' = FormatOf(file)
  /\ subtitleTracks' = <<>>
  /\ selectedSubtitleTrack' = selectedSubtitleTrack
  /\ MountVideo
  /\ quiet' = 0
  /\ UNCHANGED lifeVars
  /\ op' = Op("handleFileSelect")
  /\ UNCHANGED <<isBuffering, audioVars, ctlVars, now, fsVars, showSettingsMenu, sinceInput>>

\* handleFileSelect: the picker of the upload screen delivers a file.
handleFileSelect(file) ==
  /\ mounted /\ ~HasVideo
  /\ Len(objectURLs) < MaxUrls
  /\ videoError' = NoError
  /\ isVideoLoaded' = FALSE
  /\ isPlaying' = FALSE
  /\ currentTime' = 0
  /\ duration' = 0
  /\ objectURLs' = Append(objectURLs, Blob(file, "video"))
  /\ videoFile' = Len(objectURLs) + 1
  /\ fileName' = file.name
  /\ fileFormat' = FormatOf(file)
  /\ subtitleTracks' = <<>>
  /\ selectedSubtitleTrack' = "off"
  /\ MountVideo
  /\ quiet' = 0
  /\ UNCHANGED lifeVars
  /\ op' = Op("handleFileSelect")
  /\ UNCHANGED <<isBuffering, audioVars, ctlVars, now, fsVars, showSettingsMenu, sinceInput>>

\* handleSubtitleSelect: a subtitle picker (upload screen, or settings menu of
\* the player) delivers a file.
handleSubtitleSelect(file) ==
  /\ mounted /\ (~HasVideo \/ showSettingsMenu)
  /\ Len(objectURLs) < MaxUrls
  /\ objectURLs' = Append(objectURLs, Blob(file, "subtitle"))
  /\ LET newTrack == NewTrack(file, Len(objectURLs) + 1)
     IN  /\ subtitleTracks' = Append(subtitleTracks, newTrack)
         /\ selectedSubtitleTrack' = newTrack.id
  /\ UNCHANGED lifeVars
  /\ op' = Op("handleSubtitleSelect")
  /\ UNCHANGED <<fileVars, playVars, audioVars, ctlVars, now, nativeVars, fsVars, histVars,
                 showSettingsMenu>>

\* handleDrop without its setSelectedSubtitleTrack(newTrack.id).
handleDropKeepsSelection(files) ==
  LET v == FindFirst(files, IsVideoType)
      s == FindFirst(files, IsSubtitleName)
      nv == IF v # 0 THEN 1 ELSE 0
      ns == IF s # 0 THEN 1 ELSE 0
      urlV == Len(objectURLs) + 1
      urlS == Len(objectURLs) + nv + 1
  IN  /\ mounted /\ ~HasVideo
      /\ Len(objectURLs) + nv + ns <= MaxUrls
      /\ objectURLs' = objectURLs
                          \o (IF v # 0 THEN <<Blob(files[v], "video")>> ELSE <<>>)
                          \o (IF s # 0 THEN <<Blob(files[s], "subtitle")>> ELSE <<>>)
      /\ IF v # 0
           THEN /\ videoFile' = urlV
                /\ fileName' = files[v].name
                /\ fileFormat' = FormatOf(files[v])
                /\ videoError' = NoError
                /\ isVideoLoaded' = FALSE
                /\ MountVideo
           ELSE UNCHANGED <<fileVars, videoError, isVideoLoaded, nativeVars>>
      /\ IF s # 0
           THEN LET newTrack == NewTrack(files[s], urlS)
                IN  /\ subtitleTracks' = Append(subtitleTracks, newTrack)
                    /\ selectedSubtitleTrack' = selectedSubtitleTrack
           ELSE UNCHANGED subVars
      /\ UNCHANGED lifeVars
      /\ op' = Op(IF v = 0 THEN "handleDrop"
                  ELSE IF s = 0 THEN "handleDrop:video" ELSE "handleDrop:both")
      /\ UNCHANGED <<isPlaying, isBuffering, currentTime, duration, audioVars, ctlVars,
                     now, fsVars, histVars, showSettingsMenu>>

\* handleDrop: files are dropped on the upload screen.
handleDrop(files) ==
  LET v == FindFirst(files, IsVideoType)
      s == FindFirst(files, IsSubtitleName)
      nv == IF v # 0 THEN 1 ELSE 0
      ns == IF s # 0 THEN 1 ELSE 0
      urlV == Len(objectURLs) + 1
      urlS == Len(objectURLs) + nv + 1
  IN  /\ mounted /\ ~HasVideo
      /\ Len(objectURLs) + nv + ns <= MaxUrls
      /\ objectURLs' = objectURLs
                          \o (IF v # 0 THEN <<Blob(files[v], "video")>> ELSE <<>>)
                          \o (IF s # 0 THEN <<Blob(files[s], "subtitle")>> ELSE <<>>)
      /\ IF v # 0
           THEN /\ videoFile' = urlV
                /\ fileName' = files[v].name
                /\ fileFormat' = FormatOf(files[v])
                /\ videoError' = NoError
                /\ isVideoLoaded' = FALSE
                /\ MountVideo
           ELSE UNCHANGED <<fileVars, videoError, isVideoLoaded, nativeVars>>
      /\ IF s # 0
           THEN LET newTrack == NewTrack(files[s], urlS)
                IN  /\ subtitleTracks' = Append(subtitleTracks, newTrack)
                    /\ selectedSubtitleTrack' = newTrack.id
           ELSE UNCHANGED subVars
      /\ UNCHANGED lifeVars
      /\ op' = Op(IF v = 0 THEN "handleDrop"
                  ELSE IF s = 0 THEN "handleDrop:video" ELSE "handleDrop:both")
      /\ UNCHANGED <<isPlaying, isBuffering, currentTime, duration, audioVars, ctlVars,
                     now, fsVars, histVars, showSettingsMenu>>

\* ------------------------------------------------- the native element
\* video.play(): rejected outright when the source is unsupported (error code
\* 4); otherwise a paused element starts and a play event is queued.
NativePlay ==
  IF vErr # 4 /\ vPaused
    THEN vPaused' = FALSE /\ vEvents' = Append(vEvents, "play")
    ELSE UNCHANGED <<vPaused, vEvents>>

\* video.pause(): a playing element pauses and a pause event is queued.
NativePause ==
  IF ~vPaused
    THEN vPaused' = TRUE /\ vEvents' = Append(vEvents, "pause")
    ELSE UNCHANGED <<vPaused, vEvents>>

\* video.currentTime = t.  Before the metadata is known the value becomes the
\* default playback start position, which the getter returns; afterwards
\* the element seeks, never beyond the end of the media.
NativeSeek(t) ==
  vTime' = IF vPhase = "meta" THEN Min(t, vDuration) ELSE t

\* video.load(): the resource is selected again from the start; the error is
\* dropped, the element is paused and the playback rate returns to its default.
NativeLoad ==
  /\ vPhase' = "new" /\ vErr' = 0 /\ vPaused' = TRUE /\ vTime' = 0 /\ vRate' = 100
  /\ UNCHANGED <<vVolume, vMuted, vEvents>>

\* ------------------------------------------------------ playback control
\* togglePlayPause, as called from a handler: its effect on the element.
togglePlayPause ==
  IF HasVideo
    THEN IF isPlaying THEN NativePause ELSE NativePlay
    ELSE UNCHANGED <<vPaused, vEvents>>

\* skipBackward
skipBackward ==
  IF HasVideo
    THEN NativeSeek(Max(0, vTime - Secs(SkipSeconds)))
    ELSE UNCHANGED vTime

\* skipForward
skipForward ==
  IF HasVideo
    THEN NativeSeek(Min(duration, vTime + Secs(SkipSeconds)))
    ELSE UNCHANGED vTime

\* toggleMute
toggleMute ==
  IF HasVideo
    THEN isMuted' = ~isMuted /\ vMuted' = ~isMuted
    ELSE UNCHANGED <<isMuted, vMuted>>

\* ------------------------------------------------- controls visibility
\* setTimeout: the handle of the new timer, one no pending timer has and
\* the ref does not hold (handles are never reused).
FreshHandle ==
  CHOOSE h \in 1..(MaxTimers + 2) :
    /\ h \notin DOMAIN timers /\ h # controlsTimeoutRef
    /\ \A g \in 1..(MaxTimers + 2) :
         (g \notin DOMAIN timers /\ g # controlsTimeoutRef) => h <= g

\* clearTimeout(h)
ClearTimeout(pending, h) == [g \in DOMAIN pending \ {h} |-> pending[g]]

\* showControlsWithTimeout without its clearTimeout.
showControlsWithTimeoutNoClear ==
  /\ showControls' = TRUE
  /\ IF isPlaying
       THEN /\ controlsTimeoutRef' = FreshHandle
            /\ timers' = [g \in DOMAIN timers \cup {FreshHandle} |->
                            IF g = FreshHandle THEN AutoHideDelay ELSE timers[g]]
       ELSE UNCHANGED <<controlsTimeoutRef, timers>>

\* showControlsWithTimeout, as called from a handler.
showControlsWithTimeout ==
  LET cleared == IF controlsTimeoutRef # 0
                   THEN ClearTimeout(timers, controlsTimeoutRef)
                   ELSE timers
  IN  /\ showControls' = TRUE
      /\ IF isPlaying
           THEN /\ controlsTimeoutRef' = FreshHandle
                /\ timers' = [g \in DOMAIN cleared \cup {FreshHandle} |->
                                IF g = FreshHandle THEN AutoHideDelay ELSE cleared[g]]
           ELSE /\ controlsTimeoutRef' = controlsTimeoutRef
                /\ timers' = cleared

\* The controls overlay shown by the flag alone.
ControlsVisibleByFlagOnly == HasVideo /\ showControls

\* The controls overlay of the player is rendered visible (opacity-100)
\* rather than hidden (opacity-0): showControls || !isPlaying.
ControlsVisible == HasVideo /\ (showControls \/ ~isPlaying)

\* A qualifying input restarts both history counters.
InputSeen == sinceInput' = 0 /\ quiet' = 0

\* Room for one more pending timer (the bound of the model).
TimerRoom == Cardinality(DOMAIN timers) < MaxTimers
\* Room for one more queued native event (the bound of the model).
EventRoom == Len(vEvents) < MaxEvents

\* ---------------------------------------------------- pointer and buttons
\* A play/pause click that also flips isPlaying, ahead of the native event.
ClickPlayPauseFlipsFlag ==
  /\ HasVideo /\ EventRoom
  /\ togglePlayPause
  /\ isPlaying' = ~isPlaying
  /\ UNCHANGED lifeVars
  /\ op' = Op("togglePlayPause")
  /\ UNCHANGED <<fileVars, videoError, isVideoLoaded, isBuffering, currentTime, duration,
                 audioVars, subVars, ctlVars, pageVars, fsVars,
                 histVars, showSettingsMenu, vPhase, vErr, vTime, vVolume, vMuted, vRate>>

\* onClick={togglePlayPause}: the video, the central overlay or the button.
ClickPlayPause ==
  /\ HasVideo /\ EventRoom
  /\ togglePlayPause
  /\ UNCHANGED lifeVars
  /\ op' = Op("togglePlayPause")
  /\ UNCHANGED <<fileVars, playVars, audioVars, subVars, ctlVars, pageVars, fsVars,
                 histVars, showSettingsMenu, vPhase, vErr, vTime, vVolume, vMuted, vRate>>

\* onClick={skipBackward}
ClickSkipBackward ==
  /\ HasVideo
  /\ skipBackward
  /\ UNCHANGED lifeVars
  /\ op' = Op("skipBackward")
  /\ UNCHANGED <<fileVars, playVars, audioVars, subVars, ctlVars, pageVars, fsVars,
                 histVars, showSettingsMenu, vPhase, vPaused, vErr, vVolume, vMuted,
                 vRate, vEvents>>

\* onClick={skipForward}
ClickSkipForward ==
  /\ HasVideo
  /\ skipForward
  /\ UNCHANGED lifeVars
  /\ op' = Op("skipForward")
  /\ UNCHANGED <<fileVars, playVars, audioVars, subVars, ctlVars, pageVars, fsVars,
                 histVars, showSettingsMenu, vPhase, vPaused, vErr, vVolume, vMuted,
                 vRate, vEvents>>

\* handleProgressClick that divides by one pixel less than the width.
handleProgressClickShortBar(clickX) ==
  /\ HasVideo
  /\ NativeSeek((clickX * duration) \div (TrackWidth - 1))
  /\ UNCHANGED lifeVars
  /\ op' = Op("handleProgressClick")
  /\ UNCHANGED <<fileVars, playVars, audioVars, subVars, ctlVars, pageVars, fsVars,
                 histVars, showSettingsMenu, vPhase, vPaused, vErr, vVolume, vMuted,
                 vRate, vEvents>>

\* handleProgressClick: a click clickX pixels from the left end of the bar.
handleProgressClick(clickX) ==
  /\ HasVideo
  /\ NativeSeek((clickX * duration) \div TrackWidth)
  /\ UNCHANGED lifeVars
  /\ op' = Op("handleProgressClick")
  /\ UNCHANGED <<fileVars, playVars, audioVars, subVars, ctlVars, pageVars, fsVars,
                 histVars, showSettingsMenu, vPhase, vPaused, vErr, vVolume, vMuted,
                 vRate, vEvents>>

\* onClick={toggleMute}
ClickMute ==
  /\ HasVideo
  /\ toggleMute
  /\ UNCHANGED lifeVars
  /\ op' = Op("toggleMute")
  /\ UNCHANGED <<fileVars, playVars, volume, playbackRate, subVars, ctlVars, pageVars,
                 fsVars, histVars, showSettingsMenu, vPhase, vPaused, vErr, vTime,
                 vVolume, vRate, vEvents>>

\* handleVolumeChange that mutes at 0 and never unmutes.
handleVolumeChangeKeepsMute(newVolume) ==
  /\ HasVideo
  /\ volume' = newVolume
  /\ isMuted' = (isMuted \/ newVolume = 0)
  /\ vVolume' = newVolume
  /\ vMuted' = (isMuted \/ newVolume = 0)
  /\ UNCHANGED lifeVars
  /\ op' = Op("handleVolumeChange")
  /\ UNCHANGED <<fileVars, playVars, playbackRate, subVars, ctlVars, pageVars, fsVars,
                 histVars, showSettingsMenu, vPhase, vPaused, vErr, vTime, vRate,
                 vEvents>>

\* handleVolumeChange: the slider delivers the value newVolume.
handleVolumeChange(newVolume) ==
  /\ HasVideo
  /\ volume' = newVolume
  /\ isMuted' = (newVolume = 0)
  /\ vVolume' = newVolume
  /\ vMuted' = (newVolume = 0)
  /\ UNCHANGED lifeVars
  /\ op' = Op("handleVolumeChange")
  /\ UNCHANGED <<fileVars, playVars, playbackRate, subVars, ctlVars, pageVars, fsVars,
                 histVars, showSettingsMenu, vPhase, vPaused, vErr, vTime, vRate,
                 vEvents>>

\* handlePlaybackRateChange: a rate button of the open settings menu.
handlePlaybackRateChange(rate) ==
  /\ HasVideo /\ showSettingsMenu
  /\ playbackRate' = rate
  /\ vRate' = rate
  /\ showSettingsMenu' = FALSE
  /\ UNCHANGED lifeVars
  /\ op' = Op("handlePlaybackRateChange")
  /\ UNCHANGED <<fileVars, playVars, volume, isMuted, subVars, ctlVars, pageVars, fsVars,
                 histVars, vPhase, vPaused, vErr, vTime, vVolume, vMuted, vEvents>>

\* The Subtitles & Settings button, and the X of the menu.
ToggleSettingsMenu ==
  /\ HasVideo
  /\ showSettingsMenu' = ~showSettingsMenu
  /\ UNCHANGED lifeVars
  /\ op' = Op("setShowSettingsMenu")
  /\ UNCHANGED <<fileVars, playVars, audioVars, subVars, ctlVars, pageVars, nativeVars,
                 fsVars, histVars>>

\* The Off button and the track buttons of the open settings menu.
ChooseSubtitleTrack(id) ==
  /\ HasVideo /\ showSettingsMenu
  /\ selectedSubtitleTrack' = id
  /\ UNCHANGED lifeVars
  /\ op' = Op("setSelectedSubtitleTrack")
  /\ UNCHANGED <<fileVars, playVars, audioVars, subtitleTracks, ctlVars, pageVars,
                 nativeVars, fsVars, histVars, showSettingsMenu>>

\* handleMouseMove: the pointer moves over the player.
handleMouseMove ==
  /\ HasVideo /\ TimerRoom
  /\ showControlsWithTimeout
  /\ InputSeen
  /\ UNCHANGED lifeVars
  /\ op' = Op("handleMouseMove")
  /\ UNCHANGED <<fileVars, playVars, audioVars, subVars, pageVars, nativeVars, fsVars,
                 showSettingsMenu>>

\* handleMouseLeave without its test of isPlaying.
handleMouseLeaveAlwaysHides ==
  /\ HasVideo
  /\ showControls' = FALSE
  /\ UNCHANGED lifeVars
  /\ op' = Op("handleMouseLeave")
  /\ UNCHANGED <<fileVars, playVars, audioVars, subVars, controlsTimeoutRef, timers,
                 pageVars, nativeVars, fsVars, histVars, showSettingsMenu>>

\* handleMouseLeave: the pointer leaves the player.
handleMouseLeave ==
  /\ HasVideo
  /\ showControls' = IF isPlaying THEN FALSE ELSE showControls
  /\ UNCHANGED lifeVars
  /\ op' = Op("handleMouseLeave")
  /\ UNCHANGED <<fileVars, playVars, audioVars, subVars, controlsTimeoutRef, timers,
                 pageVars, nativeVars, fsVars, histVars, showSettingsMenu>>

\* ------------------------------------------------------------ fullscreen
\* toggleFullscreen, as called from a handler: the platform grants the
\* request and will notify the change.
toggleFullscreen ==
  IF HasVideo
    THEN fullscreenElement' = ~fullscreenElement /\ fsChange' = TRUE
    ELSE UNCHANGED <<fullscreenElement, fsChange>>

\* onClick={toggleFullscreen}
ClickFullscreen ==
  /\ HasVideo
  /\ toggleFullscreen
  /\ UNCHANGED lifeVars
  /\ op' = Op("toggleFullscreen")
  /\ UNCHANGED <<fileVars, playVars, audioVars, subVars, ctlVars, pageVars, nativeVars,
                 isFullscreen, histVars, showSettingsMenu>>

\* handleFullscreenChange that flips the flag instead of reading
\* document.fullscreenElement.
handleFullscreenChangeFlips ==
  /\ fullscreenListener /\ fsChange
  /\ isFullscreen' = ~isFullscreen
  /\ fsChange' = FALSE
  /\ UNCHANGED lifeVars
  /\ op' = Op("handleFullscreenChange")
  /\ UNCHANGED <<fileVars, playVars, audioVars, subVars, ctlVars, pageVars, nativeVars,
                 fullscreenElement, histVars, showSettingsMenu>>

\* handleFullscreenChange: the document's fullscreenchange listener.
handleFullscreenChange ==
  /\ fullscreenListener /\ fsChange
  /\ isFullscreen' = fullscreenElement
  /\ fsChange' = FALSE
  /\ UNCHANGED lifeVars
  /\ op' = Op("handleFullscreenChange")
  /\ UNCHANGED <<fileVars, playVars, audioVars, subVars, ctlVars, pageVars, nativeVars,
                 fullscreenElement, histVars, showSettingsMenu>>

\* The user leaves fullscreen by the platform's own means (Escape).
PlatformExitFullscreen ==
  /\ fullscreenElement
  /\ fullscreenElement' = FALSE
  /\ fsChange' = TRUE
  /\ UNCHANGED <<fileVars, playVars, audioVars, subVars, ctlVars, pageVars, nativeVars,
                 isFullscreen, histVars, lifeVars, showSettingsMenu, op>>

\* -------------------------------------------------------------- keyboard
\* The record of a keydown in op: the early return, a shortcut that ends with
\* showControlsWithTimeout(), the fullscreen shortcut, or no shortcut.
KeyOp(code, target) ==
  IF IsHTMLInputElement(target) THEN "handleKeyPress:return"
  ELSE IF code \in ShortcutKeys \ {"KeyF"} THEN "handleKeyPress"
  ELSE IF code = "KeyF" THEN "handleKeyPress:KeyF"
  ELSE "handleKeyPress:none"

\* handleKeyPress with KeyJ among the cases of skipForward.
handleKeyPressJSkipsForward(code, target) ==
  /\ keyListener
  /\ target = "range" => HasVideo
  /\ TimerRoom /\ EventRoom
  /\ UNCHANGED lifeVars
  /\ op' = Op(KeyOp(code, target))
  /\ UNCHANGED <<fileVars, playVars, volume, playbackRate, subVars, pageVars, isFullscreen,
                 showSettingsMenu, vPhase, vErr, vVolume, vRate>>
  /\ CASE IsHTMLInputElement(target) ->
            UNCHANGED <<vPaused, vEvents, isMuted, vMuted, vTime, fullscreenElement,
                        fsChange, ctlVars, histVars>>
       [] code \in {"Space", "KeyK"} ->
            /\ togglePlayPause
            /\ showControlsWithTimeout /\ InputSeen
            /\ UNCHANGED <<isMuted, vMuted, vTime, fullscreenElement, fsChange>>
       [] code = "KeyM" ->
            /\ toggleMute
            /\ showControlsWithTimeout /\ InputSeen
            /\ UNCHANGED <<vPaused, vEvents, vTime, fullscreenElement, fsChange>>
       [] code = "ArrowLeft" ->
            /\ skipBackward
            /\ showControlsWithTimeout /\ InputSeen
            /\ UNCHANGED <<vPaused, vEvents, isMuted, vMuted, fullscreenElement, fsChange>>
       [] code \in {"ArrowRight", "KeyL", "KeyJ"} ->
            /\ skipForward
            /\ showControlsWithTimeout /\ InputSeen
            /\ UNCHANGED <<vPaused, vEvents, isMuted, vMuted, fullscreenElement, fsChange>>
       [] code = "KeyF" ->
            /\ toggleFullscreen
            /\ UNCHANGED <<vPaused, vEvents, isMuted, vMuted, vTime, ctlVars, histVars>>
       [] OTHER ->
            UNCHANGED <<vPaused, vEvents, isMuted, vMuted, vTime, fullscreenElement,
                        fsChange, ctlVars, histVars>>

\* handleKeyPress: a keydown with the given code on the given target (the
\* volume slider exists only in the player).
handleKeyPress(code, target) ==
  /\ keyListener
  /\ target = "range" => HasVideo
  /\ TimerRoom /\ EventRoom
  /\ UNCHANGED lifeVars
  /\ op' = Op(KeyOp(code, target))
  /\ UNCHANGED <<fileVars, playVars, volume, playbackRate, subVars, pageVars, isFullscreen,
                 showSettingsMenu, vPhase, vErr, vVolume, vRate>>
  /\ CASE IsHTMLInputElement(target) ->
            UNCHANGED <<vPaused, vEvents, isMuted, vMuted, vTime, fullscreenElement,
                        fsChange, ctlVars, histVars>>
       [] code \in {"Space", "KeyK"} ->
            /\ togglePlayPause
            /\ showControlsWithTimeout /\ InputSeen
            /\ UNCHANGED <<isMuted, vMuted, vTime, fullscreenElement, fsChange>>
       [] code = "KeyM" ->
            /\ toggleMute
            /\ showControlsWithTimeout /\ InputSeen
            /\ UNCHANGED <<vPaused, vEvents, vTime, fullscreenElement, fsChange>>
       [] code \in {"ArrowLeft", "KeyJ"} ->
            /\ skipBackward
            /\ showControlsWithTimeout /\ InputSeen
            /\ UNCHANGED <<vPaused, vEvents, isMuted, vMuted, fullscreenElement, fsChange>>
       [] code \in {"ArrowRight", "KeyL"} ->
            /\ skipForward
            /\ showControlsWithTimeout /\ InputSeen
            /\ UNCHANGED <<vPaused, vEvents, isMuted, vMuted, fullscreenElement, fsChange>>
       [] code = "KeyF" ->
            /\ toggleFullscreen
            /\ UNCHANGED <<vPaused, vEvents, isMuted, vMuted, vTime, ctlVars, histVars>>
       [] OTHER ->
            UNCHANGED <<vPaused, vEvents, isMuted, vMuted, vTime, fullscreenElement,
                        fsChange, ctlVars, histVars>>

\* ------------------------------------------------- native media events
\* onLoadStart={handleLoadStart}: resource selection has started.
NativeLoadStart ==
  /\ vPhase = "new"
  /\ vPhase' = "loading"
  /\ isBuffering' = TRUE
  /\ videoError' = NoError
  /\ UNCHANGED lifeVars
  /\ op' = Op("handleLoadStart")
  /\ UNCHANGED <<fileVars, isVideoLoaded, isPlaying, currentTime, duration, audioVars,
                 subVars, ctlVars, pageVars, fsVars, histVars, showSettingsMenu,
                 vPaused, vErr, vTime, vVolume, vMuted, vRate, vEvents>>

\* onLoadedMetadata={handleLoadedMetadata}: the duration is known; the element
\* moves to the default playback start position, within the media.
NativeLoadedMetadata ==
  /\ vPhase = "loading"
  /\ vPhase' = "meta"
  /\ vTime' = Min(vTime, vDuration)
  /\ duration' = vDuration
  /\ isVideoLoaded' = TRUE
  /\ videoError' = NoError
  /\ UNCHANGED lifeVars
  /\ op' = Op("handleLoadedMetadata")
  /\ UNCHANGED <<fileVars, isPlaying, isBuffering, currentTime, audioVars, subVars,
                 ctlVars, pageVars, fsVars, histVars, showSettingsMenu,
                 vPaused, vErr, vVolume, vMuted, vRate, vEvents>>

\* onTimeUpdate={handleTimeUpdate}: the position is reported, after playback
\* has advanced it or as it stands (after a seek).
NativeTimeUpdate ==
  /\ vPhase = "meta"
  /\ \E t \in {vTime} \cup (IF vPaused THEN {} ELSE {Min(vDuration, vTime + Secs(PlayStep))}) :
       /\ vTime' = t
       /\ currentTime' = t
  /\ UNCHANGED lifeVars
  /\ op' = Op("handleTimeUpdate")
  /\ UNCHANGED <<fileVars, videoError, isVideoLoaded, isPlaying, isBuffering, duration,
                 audioVars, subVars, ctlVars, pageVars, fsVars, histVars, showSettingsMenu,
                 vPhase, vPaused, vErr, vVolume, vMuted, vRate, vEvents>>

\* onPlay={handlePlay}: the queued play event is dispatched.
NativePlayEvent ==
  /\ vEvents # <<>> /\ Head(vEvents) = "play"
  /\ vEvents' = Tail(vEvents)
  /\ isPlaying' = TRUE
  /\ isBuffering' = FALSE
  /\ videoError' = NoError
  /\ quiet' = IF isPlaying THEN quiet ELSE 0
  /\ UNCHANGED lifeVars
  /\ op' = Op("handlePlay")
  /\ UNCHANGED <<fileVars, isVideoLoaded, currentTime, duration, audioVars, subVars,
                 ctlVars, pageVars, fsVars, sinceInput, showSettingsMenu,
                 vPhase, vPaused, vErr, vTime, vVolume, vMuted, vRate>>

\* onPause={handlePause}: the queued pause event is dispatched.
NativePauseEvent ==
  /\ vEvents # <<>> /\ Head(vEvents) = "pause"
  /\ vEvents' = Tail(vEvents)
  /\ isPlaying' = FALSE
  /\ quiet' = 0
  /\ UNCHANGED lifeVars
  /\ op' = Op("handlePause")
  /\ UNCHANGED <<fileVars, videoError, isVideoLoaded, isBuffering, currentTime, duration,
                 audioVars, subVars, ctlVars, pageVars, fsVars, sinceInput,
                 showSettingsMenu, vPhase, vPaused, vErr, vTime, vVolume, vMuted, vRate>>

\* onWaiting={handleWaiting}: playback has run out of data.
NativeWaiting ==
  /\ vPhase \in {"loading", "meta"} /\ ~vPaused
  /\ isBuffering' = TRUE
  /\ UNCHANGED lifeVars
  /\ op' = Op("handleWaiting")
  /\ UNCHANGED <<fileVars, videoError, isVideoLoaded, isPlaying, currentTime, duration,
                 audioVars, subVars, ctlVars, pageVars, nativeVars, fsVars, histVars,
                 showSettingsMenu>>

\* onCanPlay={handleCanPlay}: enough data to play.
NativeCanPlay ==
  /\ vPhase = "meta"
  /\ isBuffering' = FALSE
  /\ UNCHANGED lifeVars
  /\ op' = Op("handleCanPlay")
  /\ UNCHANGED <<fileVars, videoError, isVideoLoaded, isPlaying, currentTime, duration,
                 audioVars, subVars, ctlVars, pageVars, nativeVars, fsVars, histVars,
                 showSettingsMenu>>

\* handleError without its setIsBuffering(false).
handleErrorKeepsBuffering(code) ==
  /\ isBuffering' = isBuffering
  /\ isPlaying' = FALSE
  /\ videoError' = IF HasVideo /\ code # 0 THEN ErrorMessage(code) ELSE videoError

\* handleError without its setIsPlaying(false).
handleErrorKeepsPlaying(code) ==
  /\ isBuffering' = FALSE
  /\ isPlaying' = isPlaying
  /\ videoError' = IF HasVideo /\ code # 0 THEN ErrorMessage(code) ELSE videoError

\* handleError, given video.error.code (0: video.error is null).
handleError(code) ==
  /\ isBuffering' = FALSE
  /\ isPlaying' = FALSE
  /\ videoError' = IF HasVideo /\ code # 0 THEN ErrorMessage(code) ELSE videoError

\* onError={handleError}: loading or decoding fails with a native error code.
NativeError(code) ==
  /\ vPhase \in {"loading", "meta"}
  /\ vPhase' = "failed"
  /\ vErr' = code
  /\ handleError(code)
  /\ quiet' = 0
  /\ UNCHANGED lifeVars
  /\ op' = Op("handleError")
  /\ UNCHANGED <<fileVars, isVideoLoaded, currentTime, duration, audioVars, subVars,
                 ctlVars, pageVars, fsVars, sinceInput, showSettingsMenu,
                 vPaused, vTime, vVolume, vMuted, vRate, vEvents>>

\* ------------------------------------------------------- error recovery
\* The Try Again button without its videoRef.current.load().
TryAgainNoLoad ==
  /\ HasVideo /\ videoError # NoError
  /\ videoError' = NoError
  /\ UNCHANGED lifeVars
  /\ op' = Op("tryAgain")
  /\ UNCHANGED <<fileVars, isVideoLoaded, isPlaying, isBuffering, currentTime, duration,
                 audioVars, subVars, ctlVars, pageVars, nativeVars, fsVars, histVars,
                 showSettingsMenu>>

\* The Try Again button of the error overlay.
TryAgain ==
  /\ HasVideo /\ videoError # NoError
  /\ videoError' = NoError
  /\ NativeLoad
  /\ UNCHANGED lifeVars
  /\ op' = Op("tryAgain")
  /\ UNCHANGED <<fileVars, isVideoLoaded, isPlaying, isBuffering, currentTime, duration,
                 audioVars, subVars, ctlVars, pageVars, fsVars, histVars, showSettingsMenu>>

\* The Choose Different File button of the error overlay; the player, with
\* its <video> element, leaves the page (and fullscreen with it).
ChooseDifferentFile ==
  /\ HasVideo /\ videoError # NoError
  /\ videoFile' = 0
  /\ videoError' = NoError
  /\ fileName' = ""
  /\ UnmountVideo
  /\ fullscreenElement' = FALSE
  /\ fsChange' = (fsChange \/ fullscreenElement)
  /\ UNCHANGED lifeVars
  /\ op' = Op("chooseDifferentFile")
  /\ UNCHANGED <<fileFormat, isVideoLoaded, isPlaying, isBuffering, currentTime, duration,
                 audioVars, subVars, ctlVars, pageVars, isFullscreen, histVars,
                 showSettingsMenu>>

\* ------------------------------------------------------------- teardown
\* The cleanups of the effects without the clearTimeout of the last one.
TeardownKeepsTimer ==
  /\ mounted
  /\ mounted' = FALSE
  /\ keyListener' = FALSE
  /\ fullscreenListener' = FALSE
  /\ timers' = timers
  /\ UnmountVideo
  /\ fullscreenElement' = FALSE
  /\ fsChange' = (fsChange \/ fullscreenElement)
  /\ op' = Op("teardown")
  /\ UNCHANGED <<fileVars, playVars, audioVars, subVars, showControls, controlsTimeoutRef,
                 pageVars, isFullscreen, histVars, showSettingsMenu>>

\* The component is unmounted: the cleanups of its three effects run, and
\* its elements, the <video> among them, leave the page (and fullscreen
\* with them).  The React state is gone; its variables keep their last values.
Teardown ==
  /\ mounted
  /\ mounted' = FALSE
  /\ keyListener' = FALSE
  /\ fullscreenListener' = FALSE
  /\ timers' = IF controlsTimeoutRef # 0
                 THEN ClearTimeout(timers, controlsTimeoutRef)
                 ELSE timers
  /\ UnmountVideo
  /\ fullscreenElement' = FALSE
  /\ fsChange' = (fsChange \/ fullscreenElement)
  /\ op' = Op("teardown")
  /\ UNCHANGED <<fileVars, playVars, audioVars, subVars, showControls, controlsTimeoutRef,
                 pageVars, isFullscreen, histVars, showSettingsMenu>>

\* A keydown reaches the document while no listener of the component is
\* subscribed to it.
KeydownUnheard ==
  /\ ~keyListener
  /\ op' = Op("keydown")
  /\ UNCHANGED <<fileVars, playVars, audioVars, subVars, ctlVars, pageVars, nativeVars,
                 fsVars, histVars, lifeVars, showSettingsMenu>>

\* A fullscreenchange notification is delivered while no listener of the
\* component is subscribed to it.
FullscreenChangeUnheard ==
  /\ ~fullscreenListener /\ fsChange
  /\ fsChange' = FALSE
  /\ op' = Op("fullscreenchange")
  /\ UNCHANGED <<fileVars, playVars, audioVars, subVars, ctlVars, pageVars, nativeVars,
                 isFullscreen, fullscreenElement, histVars, lifeVars, showSettingsMenu>>

\* ------------------------------------------------------ time and timers
\* Date.now() after the clock has moved: now only ever produces track ids,
\* so it is kept up to their order (a fresh value when the current one is
\* taken, the same value otherwise).
ClockMoved == IF \E i \in DOMAIN subtitleTracks : subtitleTracks[i].id = TrackId(now)
                THEN now + 1 ELSE now

\* Less than a second passes, and the millisecond clock moves.
ClockAdvance ==
  /\ ClockMoved # now
  /\ now' = ClockMoved
  /\ UNCHANGED <<fileVars, playVars, audioVars, subVars, ctlVars, objectURLs, nativeVars,
                 fsVars, histVars, lifeVars, showSettingsMenu, op>>

\* One second passes; a timer that is due fires before the next second.
Tick ==
  /\ \A h \in DOMAIN timers : timers[h] > 0
  /\ timers' = [h \in DOMAIN timers |-> timers[h] - 1]
  /\ now' = ClockMoved
  /\ sinceInput' = Min(sinceInput + 1, AutoHideDelay)
  /\ quiet' = IF isPlaying THEN Min(quiet + 1, AutoHideDelay) ELSE 0
  /\ UNCHANGED <<fileVars, playVars, audioVars, subVars, showControls, controlsTimeoutRef,
                 objectURLs, nativeVars, fsVars, lifeVars, showSettingsMenu, op>>

\* The callback of a timer set by showControlsWithTimeout.
TimerFire(h) ==
  /\ h \in DOMAIN timers /\ timers[h] = 0
  /\ showControls' = FALSE
  /\ timers' = ClearTimeout(timers, h)
  /\ UNCHANGED lifeVars
  /\ op' = Op("timeout")
  /\ UNCHANGED <<fileVars, playVars, audioVars, subVars, controlsTimeoutRef, pageVars,
                 nativeVars, fsVars, histVars, showSettingsMenu>>

SelectVideo(files) == \E file \in files : handleFileSelect(file)
SelectSubtitle == \E file \in Files : handleSubtitleSelect(file)
Drop(files) == \E payload \in DropPayloads(files) : handleDrop(payload)
ProgressClick == \E clickX \in 0..TrackWidth : handleProgressClick(clickX)
VolumeChange == \E newVolume \in Volumes : handleVolumeChange(newVolume)
PlaybackRateChange == \E rate \in Rates : handlePlaybackRateChange(rate)
SubtitleChoice ==
  \E id \in {"off"} \cup {subtitleTracks[i].id : i \in DOMAIN subtitleTracks} :
    ChooseSubtitleTrack(id)
KeyPress(keys, targets) == \E code \in keys, target \in targets : handleKeyPress(code, target)
ErrorEvent(codes) == \E code \in codes : NativeError(code)
Timeout == \E h \in DOMAIN timers : TimerFire(h)

\* The life cycle of a video: intake, loading, playing, failing, recovery.
Lifecycle(files, codes) ==
  \/ SelectVideo(files)
  \/ Drop(files)
  \/ ClickPlayPause
  \/ NativeLoadStart
  \/ NativeLoadedMetadata
  \/ NativePlayEvent
  \/ NativePauseEvent
  \/ NativeWaiting
  \/ NativeCanPlay
  \/ ErrorEvent(codes)
  \/ TryAgain
  \/ ChooseDifferentFile

\* Subtitle tracks.
Subtitling ==
  \/ SelectSubtitle
  \/ ToggleSettingsMenu
  \/ SubtitleChoice
  \/ ClockAdvance

\* Volume, mute and playback rate.
Audio ==
  \/ ClickMute
  \/ VolumeChange
  \/ ToggleSettingsMenu
  \/ PlaybackRateChange

\* Seeking and the reported position.
Seeking ==
  \/ ClickSkipBackward
  \/ ClickSkipForward
  \/ ProgressClick
  \/ NativeTimeUpdate

\* Visibility of the controls and the passing of time.
Controls(keys, targets) ==
  \/ handleMouseMove
  \/ handleMouseLeave
  \/ KeyPress(keys, targets)
  \/ Tick
  \/ Timeout

\* Fullscreen.
Fullscreen ==
  \/ ClickFullscreen
  \/ handleFullscreenChange
  \/ PlatformExitFullscreen

\* The end of the component, and the events that reach the page after it.
Unmounting ==
  \/ Teardown
  \/ KeydownUnheard
  \/ FullscreenChangeUnheard

\* Native error codes: every code, and one code of each kind play() tells
\* apart (4, on which it is rejected, and another).
AllCodes == 1..MaxErrorCode
SomeCodes == {3, 4}
OneCode == {3}
\* Every key but the fullscreen shortcut, which leaves the controls and the
\* timer alone.
ControlKeys == Keys \ {"KeyF"}
\* The video files, and one of them.
Videos == {MovieMp4, ClipMkv}
OneVideo == {MovieMp4}

Next ==
  \/ Lifecycle(Files, AllCodes)
  \/ Subtitling
  \/ Audio
  \/ Seeking
  \/ Controls(Keys, KeyTargets)
  \/ Fullscreen
  \/ Unmounting

Spec == Init /\ [][Next]_vars

\* The specifications below let the user and the platform run the handlers of
\* one concern next to the whole life cycle of a video, on the files and
\* with the error codes that concern tells apart.
SpecPlayback == Init /\ [][Lifecycle(Files, AllCodes)]_vars
SpecIntake == Init /\ [][Lifecycle(Files, SomeCodes) \/ Subtitling \/ NativeTimeUpdate]_vars
SpecAudio == Init /\ [][Lifecycle(OneVideo, SomeCodes) \/ Audio]_vars
SpecSeek == Init /\ [][Lifecycle(Videos, SomeCodes) \/ Seeking]_vars
SpecControls ==
  Init /\ [][Lifecycle(OneVideo, SomeCodes) \/ Controls(ControlKeys, {"body"})]_vars
SpecKeyboard ==
  Init /\ [][\/ Lifecycle(OneVideo, OneCode)
            \/ KeyPress(Keys, KeyTargets)
            \/ handleMouseLeave]_vars
\* The whole seconds of the positions the time display is checked at: the
\* first minutes, and the seconds around ten minutes, one hour and ten hours.
FormatSeconds ==
  (0 .. 130) \cup {599, 600, 601, 3599, 3600, 3601, 3661, 7325, 35999, 36000}
\* The positions: every fraction of each of those seconds the time scale has.
FormatTimes ==
  {t \in {Secs(s) + f : s \in FormatSeconds, f \in 0 .. (TrackWidth - 1)} :
     t <= Secs(FilmMp4.secs)}

\* The film is loaded and paused, at any of those positions (playback and
\* seeks of any length have led there); no position has been reported yet.
InitFormat ==
  /\ videoFile = 1 /\ fileName = FilmMp4.name /\ fileFormat = FormatOf(FilmMp4)
  /\ videoError = NoError
  /\ isVideoLoaded = TRUE /\ isPlaying = FALSE /\ isBuffering = FALSE
  /\ currentTime = 0 /\ duration = Secs(FilmMp4.secs)
  /\ volume = 100 /\ isMuted = FALSE /\ playbackRate = 100
  /\ showControls = TRUE /\ showSettingsMenu = FALSE
  /\ subtitleTracks = <<>> /\ selectedSubtitleTrack = "off"
  /\ controlsTimeoutRef = 0
  /\ objectURLs = <<Blob(FilmMp4, "video")>> /\ now = 0 /\ timers = <<>>
  /\ vPhase = "meta" /\ vPaused = TRUE /\ vErr = 0
  /\ vTime \in FormatTimes
  /\ vVolume = 100 /\ vMuted = FALSE /\ vRate = 100 /\ vEvents = <<>>
  /\ isFullscreen = FALSE /\ fullscreenElement = FALSE /\ fsChange = FALSE
  /\ mounted = TRUE /\ keyListener = TRUE /\ fullscreenListener = TRUE
  /\ op = "init" /\ sinceInput = 0 /\ quiet = 0

SpecFormat == InitFormat /\ [][NativeTimeUpdate \/ ClickPlayPause \/ NativePlayEvent]_vars
SpecPointer ==
  Init /\ [][\/ Lifecycle(OneVideo, OneCode)
            \/ handleMouseMove
            \/ handleMouseLeave
            \/ Tick
            \/ Timeout]_vars
SpecTeardown ==
  Init /\ [][\/ Lifecycle(OneVideo, OneCode)
            \/ handleMouseMove
            \/ Tick
            \/ Timeout
            \/ ClickFullscreen
            \/ handleFullscreenChange
            \/ Unmounting]_vars
SpecFullscreen ==
  Init /\ [][\/ Lifecycle(OneVideo, SomeCodes)
            \/ Fullscreen
            \/ KeyPress({"KeyF"}, KeyTargets)]_vars

\* ======================================================================
\* Properties
\* ======================================================================
\* The state right after a video file was taken in, by the picker or by a
\* drop (a drop of a video alone, or of a video with a subtitle file).
AfterPick == op = "handleFileSelect"
AfterVideoDrop == op = "handleDrop:video"
AfterAnyVideoDrop == op \in {"handleDrop:video", "handleDrop:both"}

\* C1: after a video file is selected, by the picker or by a drop of the
\* video, the subtitle track list is empty, the subtitle selection is "off",
\* currentTime is 0 and there is no error message.
C1_IntakeResets ==
  (AfterPick \/ AfterVideoDrop) =>
    /\ subtitleTracks = <<>>
    /\ selectedSubtitleTrack = "off"
    /\ currentTime = 0
    /\ videoError = NoError

\* C3: the only unreleased blob URL created for a video is the URL of the
\* active video.
C3_VideoUrlsReleased ==
  \A u \in DOMAIN objectURLs : objectURLs[u].use = "video" => u = videoFile

\* C4: after a video file is selected (picker or drop) the whole playback
\* state holds its initial values.
C4_PlaybackStateInitial ==
  (AfterPick \/ AfterAnyVideoDrop) =>
    /\ currentTime = 0 /\ duration = 0
    /\ volume = 100 /\ isMuted = FALSE /\ playbackRate = 100
    /\ isPlaying = FALSE /\ isBuffering = FALSE
    /\ videoError = NoError

\* C9: after a native error event the message is the one of the native error
\* code: 1 aborted, 2 network, 3 "Video format not supported or corrupted",
\* 4 not supported by the browser, any other code the generic message; and
\* a message is set.
C9_ErrorMessages ==
  op = "handleError" =>
    /\ videoError # NoError
    /\ vErr = 1 => videoError = "Video loading was aborted"
    /\ vErr = 2 => videoError = "Network error occurred while loading video"
    /\ vErr = 3 => videoError = "Video format not supported or corrupted"
    /\ vErr = 4 => videoError = "Video format not supported by your browser"
    /\ vErr \notin 1..4 => videoError = "Unknown video error occurred"

\* A native error with a code that is none of the standard ones has been
\* handled.
C9_Witness ==
  /\ op = "handleError" /\ vPhase = "failed"
  /\ vErr = MaxErrorCode
  /\ videoError = "Unknown video error occurred"

\* C10: after a native error event isPlaying and isBuffering are false.
C10_ErrorStopsPlayback ==
  op = "handleError" => ~isPlaying /\ ~isBuffering

\* An error has been handled on an element that was playing.
C10_Witness ==
  /\ op = "handleError" /\ vPhase = "failed"
  /\ ~vPaused /\ vEvents = <<>>
  /\ ~isPlaying /\ ~isBuffering

\* C6: the volume-change operation with value v leaves volume = v and
\* muted = (v = 0), in the component and on the native element, whatever
\* the muted flag was.
C6_VolumeSetsMuted ==
  [][\A v \in Volumes :
       handleVolumeChange(v) =>
         /\ volume' = v /\ isMuted' = (v = 0)
         /\ vVolume' = v /\ vMuted' = (v = 0)]_vars

\* The slider has been moved to 0: the component and the element are muted.
C6_Witness ==
  /\ op = "handleVolumeChange"
  /\ volume = 0 /\ isMuted /\ vVolume = 0 /\ vMuted

\* C7: with a video element at native position t, skip-backward moves it to
\* max(0, t - 10) and skip-forward to min(d, t + 10), d the duration of the
\* video the element holds; the new position lies in [0, d].
C7_SkipWithinVideo ==
  [][/\ ClickSkipBackward =>
          /\ vTime' = Max(0, vTime - Secs(SkipSeconds))
          /\ 0 <= vTime' /\ vTime' <= vDuration
     /\ ClickSkipForward =>
          /\ vTime' = Min(vDuration, vTime + Secs(SkipSeconds))
          /\ 0 <= vTime' /\ vTime' <= vDuration]_vars

\* C8: a click at offset clickX of a bar of width TrackWidth seeks the
\* element to (clickX / TrackWidth) * duration, a position in [0, duration].
C8_ProgressClickSeeks ==
  [][\A clickX \in 0..TrackWidth :
       handleProgressClick(clickX) =>
         /\ vTime' * TrackWidth = clickX * duration
         /\ 0 <= vTime' /\ vTime' <= duration]_vars

\* A click strictly inside the bar of a loaded video has moved the element
\* to a position strictly inside the video.
C8_Witness ==
  /\ op = "handleProgressClick" /\ vPhase = "meta"
  /\ 0 < vTime /\ vTime < duration

\* No timer is due: every timer whose delay has passed has fired.
NoTimerDue == \A h \in DOMAIN timers : timers[h] > 0

\* C2: when isPlaying has held for 3 seconds without a qualifying input, the
\* controls are hidden.
C2_AutoHideWhilePlaying ==
  (isPlaying /\ quiet >= AutoHideDelay /\ NoTimerDue) => ~showControls

\* The state right after a qualifying input: a pointer movement or a
\* shortcut other than the fullscreen one (neither handler writes isPlaying).
AfterQualifyingInput == op \in {"handleMouseMove", "handleKeyPress"} /\ sinceInput = 0

\* C5: while isPlaying is true a qualifying input shows the controls, cancels
\* the pending timer and starts a new one of 3 seconds; at most one timer is
\* pending at any time; and a timer hides the controls no earlier than 3
\* seconds after the latest qualifying input.
C5_TimerRestarted ==
  /\ Cardinality(DOMAIN timers) <= 1
  /\ (AfterQualifyingInput /\ isPlaying) =>
       /\ showControls
       /\ DOMAIN timers = {controlsTimeoutRef}
       /\ timers[controlsTimeoutRef] = AutoHideDelay
  /\ \A h \in DOMAIN timers : timers[h] + sinceInput >= AutoHideDelay
  /\ op = "timeout" => sinceInput >= AutoHideDelay

\* A qualifying input during playback has replaced an earlier timer by a new
\* one with the full delay.
C5_Witness ==
  /\ op \in {"handleMouseMove", "handleKeyPress"}
  /\ isPlaying /\ showControls /\ sinceInput = 0
  /\ controlsTimeoutRef = 2
  /\ DOMAIN timers = {2} /\ timers[2] = AutoHideDelay

\* C11: after one drop that holds a video file and a subtitle file, the
\* active video is a new blob URL of the video file on a freshly mounted
\* element, and the last track of the subtitle list is a new track of the
\* subtitle file (its own blob URL, its label the file name without the
\* extension), and that track is the selected one.
C11_DropBothAccepted ==
  op = "handleDrop:both" =>
    /\ HasVideo /\ videoFile \in DOMAIN objectURLs
    /\ objectURLs[videoFile].use = "video"
    /\ IsVideoType(objectURLs[videoFile].file)
    /\ fileName = objectURLs[videoFile].file.name
    /\ vPhase = "new"
    /\ subtitleTracks # <<>>
    /\ LET track == subtitleTracks[Len(subtitleTracks)]
       IN  /\ track.src \in DOMAIN objectURLs /\ track.src # videoFile
           /\ objectURLs[track.src].use = "subtitle"
           /\ IsSubtitleName(objectURLs[track.src].file)
           /\ track.label = objectURLs[track.src].file.stem
           /\ selectedSubtitleTrack = track.id

\* clip.mkv and subs.vtt have been dropped together.
C11_Witness ==
  /\ op = "handleDrop:both"
  /\ fileName = "clip.mkv"
  /\ Len(subtitleTracks) = 1 /\ subtitleTracks[1].label = "subs"
  /\ selectedSubtitleTrack = subtitleTracks[1].id

\* C12: the error overlay, with its two buttons, is shown only over a player
\* whose element has failed.  Try Again clears the error, keeps the video
\* URL and calls load() on the element, which starts resource selection
\* again without the native error; Choose Different File sets the video URL
\* and the error to null, which shows the upload screen.  A failed element
\* is reloaded or discarded by these two buttons only.
C12_RecoveryByUserOnly ==
  /\ [](videoError # NoError => HasVideo /\ vPhase = "failed")
  /\ [][/\ TryAgain =>
            /\ videoError' = NoError
            /\ videoFile' = videoFile /\ objectURLs' = objectURLs
            /\ vPhase' = "new" /\ vErr' = 0
        /\ ChooseDifferentFile =>
            /\ videoError' = NoError
            /\ videoFile' = 0 /\ vPhase' = "none"
        /\ (vPhase = "failed" /\ vPhase' = "new") => op' = "tryAgain"
        /\ (videoFile # 0 /\ videoFile' = 0) => op' = "chooseDifferentFile"
        /\ (vPhase = "failed" /\ vPhase' # "failed") =>
              op' \in {"tryAgain", "chooseDifferentFile"}]_vars

\* Try Again has been pressed on a video that failed after its metadata was
\* loaded: the same video is being loaded again.
C12_Witness ==
  /\ op = "tryAgain"
  /\ HasVideo /\ videoError = NoError
  /\ vPhase = "new" /\ vErr = 0 /\ isVideoLoaded

\* C13: whenever the player holds a video and isPlaying is false, the
\* controls overlay is rendered visible, whatever the showControls flag is
\* (a timer that expires or a pointer that leaves cannot hide it).
C13_PausedControlsVisible ==
  (HasVideo /\ ~isPlaying) => ControlsVisible

\* A timer set during playback has expired after the pause of a loaded
\* video: the flag is false and the overlay is visible.
C13_Witness ==
  /\ op = "timeout"
  /\ isVideoLoaded /\ ~isPlaying /\ vPaused
  /\ ~showControls /\ ControlsVisible

\* C14: a timer callback sets the showControls flag to false only while
\* isPlaying is true, so a timer set before a pause never hides the
\* controls flag after it.
C14_TimerHidesOnlyWhilePlaying ==
  (op = "timeout" /\ ~showControls) => isPlaying

\* C15: every fullscreenchange notification leaves isFullscreen equal to the
\* platform's fullscreen state, so the two agree whenever no notification
\* is pending, also after the platform left fullscreen by itself; only
\* that listener writes the flag; toggleFullscreen (button or F key) leaves
\* the flag alone and requests fullscreen if the platform is not in
\* fullscreen, the exit otherwise (and nothing without a player).
C15_FullscreenFlagSynced ==
  /\ [](~fsChange => isFullscreen = fullscreenElement)
  /\ [][/\ handleFullscreenChange => isFullscreen' = fullscreenElement'
        /\ isFullscreen' # isFullscreen => op' = "handleFullscreenChange"
        /\ (ClickFullscreen \/ handleKeyPress("KeyF", "body")) =>
            /\ isFullscreen' = isFullscreen
            /\ HasVideo => fullscreenElement' = ~fullscreenElement /\ fsChange'
            /\ ~HasVideo => UNCHANGED <<fullscreenElement, fsChange>>]_vars

\* A notification has been handled in the player after the platform left
\* fullscreen: the flag is false, as the platform's state is.
C15_Witness ==
  /\ op = "handleFullscreenChange"
  /\ HasVideo /\ ~fsChange
  /\ ~isFullscreen /\ ~fullscreenElement

\* The ids of the tracks of the subtitle list.
TrackIds == {subtitleTracks[i].id : i \in DOMAIN subtitleTracks}

C17_TrackIdsUnique ==
  \A i, j \in DOMAIN subtitleTracks : i # j => subtitleTracks[i].id # subtitleTracks[j].id

\* C18: while a video element is mounted, the volume, the muted flag and
\* the playback rate of the component equal those of the element.
C18_AudioMirrorsElement ==
  HasVideo =>
    /\ volume = vVolume
    /\ isMuted = vMuted
    /\ playbackRate = vRate

\* What a keydown outside an input element is to do, by its code: the
\* operation of the shortcut, then showControlsWithTimeout for every
\* shortcut but F; no other part of the state changes.
ShortcutEffect(code) ==
  /\ UNCHANGED <<fileVars, playVars, volume, playbackRate, subVars, pageVars, isFullscreen,
                 showSettingsMenu, vPhase, vErr, vVolume, vRate>>
  /\ CASE code \in {"Space", "KeyK"} ->
            /\ togglePlayPause /\ showControlsWithTimeout
            /\ UNCHANGED <<isMuted, vMuted, vTime, fullscreenElement, fsChange>>
       [] code = "KeyM" ->
            /\ toggleMute /\ showControlsWithTimeout
            /\ UNCHANGED <<vPaused, vEvents, vTime, fullscreenElement, fsChange>>
       [] code \in {"ArrowLeft", "KeyJ"} ->
            /\ skipBackward /\ showControlsWithTimeout
            /\ UNCHANGED <<vPaused, vEvents, isMuted, vMuted, fullscreenElement, fsChange>>
       [] code \in {"ArrowRight", "KeyL"} ->
            /\ skipForward /\ showControlsWithTimeout
            /\ UNCHANGED <<vPaused, vEvents, isMuted, vMuted, fullscreenElement, fsChange>>
       [] code = "KeyF" ->
            /\ toggleFullscreen
            /\ UNCHANGED <<vPaused, vEvents, isMuted, vMuted, vTime, ctlVars>>
       [] OTHER ->
            UNCHANGED <<vPaused, vEvents, isMuted, vMuted, vTime, fullscreenElement,
                        fsChange, ctlVars>>

\* C19: a keydown outside an input element has the effect of its shortcut:
\* Space and K toggle play-pause, M toggles mute, ArrowLeft and J skip
\* backward, ArrowRight and L skip forward, each followed by
\* showControlsWithTimeout; F toggles fullscreen and leaves showControls, the
\* timer ref and the pending timers alone; any other key changes nothing.
C19_KeyboardDispatch ==
  [][\A code \in Keys : handleKeyPress(code, "body") => ShortcutEffect(code)]_vars

\* A shortcut pressed during playback of a loaded video has left the element
\* muted and moved off the start, the controls shown and a timer pending.
C19_Witness ==
  /\ op = "handleKeyPress"
  /\ isPlaying /\ vPhase = "meta"
  /\ isMuted /\ vMuted /\ vTime > 0
  /\ showControls /\ DOMAIN timers = {controlsTimeoutRef}

\* C20: a keydown of a shortcut key changes nothing of the component or of
\* the element when its target is a text input, and has the effect of its
\* shortcut whenever its target is no text input.
C20_ShortcutsUnlessTextInput ==
  [][\A code \in ShortcutKeys, target \in KeyTargets :
       handleKeyPress(code, target) =>
         IF IsTextInput(target)
           THEN UNCHANGED <<fileVars, playVars, audioVars, subVars, ctlVars, pageVars,
                            nativeVars, fsVars, showSettingsMenu>>
           ELSE ShortcutEffect(code)]_vars

\* The React state of the component.
componentState ==
  <<fileVars, playVars, audioVars, subVars, showControls, showSettingsMenu, isFullscreen>>

\* C21: once the component is torn down, its keydown listener and its
\* fullscreenchange listener are unsubscribed and no timer is pending, and
\* no later step (a key event, a fullscreenchange notification, the passing
\* of time) changes the state of the component.
C21_NothingAfterTeardown ==
  /\ [](~mounted => ~keyListener /\ ~fullscreenListener /\ timers = <<>>)
  /\ [][~mounted => UNCHANGED componentState]_vars

\* The component was torn down in fullscreen during playback, right after a
\* pointer movement; the notification of the exit has since been delivered
\* to no listener.
C21_Witness ==
  /\ ~mounted /\ op = "other"
  /\ isPlaying /\ sinceInput = 0 /\ controlsTimeoutRef # 0
  /\ isFullscreen /\ ~fullscreenElement /\ ~fsChange
  /\ timers = <<>>

\* C22: when the pointer leaves the player while isPlaying is true, the
\* showControls flag is false and the overlay is rendered hidden right after
\* the step, whatever time a pending timer has left; when it leaves while
\* isPlaying is false, the flag and the rendering of the overlay are as
\* they were.
C22_PointerLeaveHidesWhilePlaying ==
  [][handleMouseLeave =>
       IF isPlaying
         THEN ~showControls' /\ ~ControlsVisible'
         ELSE showControls' = showControls /\ ControlsVisible' = ControlsVisible]_vars

\* During playback the pointer has left the player right after it moved: the
\* controls are hidden while the timer still has its full delay to run.
C22_Witness ==
  /\ isPlaying /\ ~showControls /\ ~ControlsVisible
  /\ sinceInput = 0
  /\ DOMAIN timers = {controlsTimeoutRef} /\ timers[controlsTimeoutRef] = AutoHideDelay

\* The two-digit, zero-padded decimal of a number below 100.
TwoDigits(n) == <<DigitChar(n \div 10), DigitChar(n % 10)>>

C24_ToggleLeavesFlagToEvents ==
  [][/\ ClickPlayPause =>
          /\ isPlaying' = isPlaying
          /\ isPlaying => /\ vPaused'
                          /\ vEvents' = IF vPaused THEN vEvents ELSE Append(vEvents, "pause")
          /\ ~isPlaying => /\ vPaused' = (vPaused /\ vErr = 4)
                           /\ vEvents' = IF vPaused /\ vErr # 4
                                            THEN Append(vEvents, "play") ELSE vEvents
     /\ NativePlayEvent => isPlaying'
     /\ NativePauseEvent => ~isPlaying'
     /\ isPlaying' # isPlaying =>
          \/ NativePlayEvent \/ NativePauseEvent
          \/ \E code \in AllCodes : NativeError(code)
          \/ \E file \in Files : handleFileSelect(file)]_vars

\* The toggle has paused a playing video whose pause event is yet to be
\* dispatched: isPlaying is still true.
C24_Witness ==
  /\ vPhase = "meta" /\ videoError = NoError
  /\ isPlaying /\ vPaused /\ vEvents = <<"pause">>

\* C25: while isPlaying is true the player holds a video and no error
\* message is set, so neither the upload screen nor the error overlay is
\* shown; and a shortcut pressed on the upload screen leaves no timer pending.
C25_PlayingHasVideoAndNoError ==
  /\ isPlaying => HasVideo /\ videoError = NoError
  /\ (~HasVideo /\ op = "handleKeyPress") => ~isPlaying /\ timers = <<>>

\* A play event has been handled after the element failed: isPlaying is
\* true and the message of the failure is cleared.
C25_Witness ==
  /\ isPlaying /\ HasVideo /\ videoError = NoError
  /\ vPhase = "failed" /\ vErr = 3 /\ ~vPaused
====
